---------------------------- MODULE Spec2Model ----------------------------
(***************************************************************************)
(* A model of issue/issue.go: the query compiler (queryToListOptions),     *)
(* the paginated retrieval of issues (searchIssues, listRepoIssues) and    *)
(* the shared issue cache (updateIssueCache, bulkReadIssuesCached).        *)
(*                                                                         *)
(* A Go string is a sequence of symbols.  A symbol is either a word that   *)
(* holds no separator ("state", "rsc") or one separator character          *)
(* (" ", ":", ",", "'", the double quote).                                 *)
(***************************************************************************)
EXTENDS Integers, Sequences, FiniteSets, TLC

\* ------------------------------------------------------------------ bounds
MaxText == 5     \* characters of a text given to wrap
MaxWidth == 3    \* widths wrap is tried with are 1..MaxWidth, and 9
MaxEntries == 3  \* comments and events delivered to one printIssue
MaxAround == 1   \* other tokens around a no:milestone and milestone:<name> pair
MaxTokens == 2   \* tokens of a generated query
MaxReqs == 3     \* page calls one searchIssues makes before the model stops it
MaxAll == 2      \* issues the tracker delivers to one searchIssues
MaxNum == 1      \* issue numbers on pages are 0..MaxNum
MaxPage == 2     \* next-page indicators are 0..MaxPage
MaxIds == 3      \* identifiers passed to one bulkReadIssuesCached
MaxOps == 2      \* cache operations started in one run

\* the issue numbers bulk reads ask for, and the snapshots of one issue the
\* tracker hands out over time
Ids == {1, 2}
Vers == {1, 2}

\* ----------------------------------------------------------------- strings
DQ == "\""
SQ == "'"
SP == " "
NL == "\n"

\* strings.ContainsAny(s, chars)
ContainsAny(s, chars) == \E i \in 1..Len(s) : s[i] \in chars

\* strings.Index(s, c) for a one-character c: 0-based, -1 when absent
Index(s, c) ==
  IF \A i \in 1..Len(s) : s[i] # c THEN -1
  ELSE (CHOOSE i \in 1..Len(s) : s[i] = c /\ \A j \in 1..(i-1) : s[j] # c) - 1

\* strings.Split(s, sep) for a one-character sep: the pieces, empty ones kept
RECURSIVE Split(_, _)
Split(s, sep) ==
  LET i == Index(s, sep)
  IN IF i < 0 THEN <<s>>
     ELSE <<SubSeq(s, 1, i)>> \o Split(SubSeq(s, i + 2, Len(s)), sep)

\* strings.Fields(s): the maximal runs of non-space symbols
Fields(s) == SelectSeq(Split(s, SP), LAMBDA f : f # <<>>)

\* strings.HasPrefix(s, p)
HasPrefix(s, p) == Len(s) >= Len(p) /\ SubSeq(s, 1, Len(p)) = p

\* fmt.Sprint of a non-negative int: its decimal digits
Digit(d) == <<"0", "1", "2", "3", "4", "5", "6", "7", "8", "9">>[d + 1]

RECURSIVE Sprint(_)
Sprint(n) == IF n < 10 THEN <<Digit(n)>> ELSE Sprint(n \div 10) \o <<Digit(n % 10)>>

\* ------------------------------------------------------------- query compiler
\* the zero github.IssueListByRepoOptions; a nil Labels slice is <<>>
\* (strings.Split never returns an empty slice), the zero Since is 0
ZeroOptions ==
  [Milestone |-> <<>>, State |-> <<>>, Assignee |-> <<>>, Creator |-> <<>>,
   Mentioned |-> <<>>, Labels |-> <<>>, Sort |-> <<>>, Since |-> 0]

\* the tracker's answer to ListMilestones(State: "open"): err, or the list
MilestoneWorlds ==
  { [err |-> FALSE, all |-> <<>>],
    [err |-> FALSE, all |-> <<[Title |-> <<"Go1.5">>, Number |-> 42]>>],
    [err |-> TRUE, all |-> <<>>] }

\* loadMilestones: (all, err)
loadMilestones(tr) ==
  IF tr.err THEN [all |-> <<>>, err |-> TRUE] ELSE [all |-> tr.all, err |-> FALSE]

\* findMilestone(w, &name): <<>> is nil, <<n>> the number of the first open
\* milestone titled name
findMilestone(name, tr) ==
  LET r == loadMilestones(tr)
      hits == SelectSeq(r.all, LAMBDA m : m.Title = name)
  IN IF name = <<>> \/ r.err \/ hits = <<>> THEN <<>> ELSE <<Head(hits).Number>>

\* the result of one turn of the loop over strings.Fields(q): the options so
\* far, whether the loop goes on (FALSE: the bare return, ok = false), and
\* whether the turn called findMilestone
Stop(opt) == [opt |-> opt, go |-> FALSE, looked |-> FALSE]
Go(opt) == [opt |-> opt, go |-> TRUE, looked |-> FALSE]
Looked(r) == [r EXCEPT !.looked = TRUE]

\* case "author", with the value filed under Assignee
setCreatorAsAssignee(opt, val) ==
  IF opt.Assignee # <<>> \/ val = <<>> THEN Stop(opt)
  ELSE Go([opt EXCEPT !.Assignee = val])

\* case "author", without the test for a Creator set before
setCreatorOverwrite(opt, val) ==
  IF val = <<>> THEN Stop(opt) ELSE Go([opt EXCEPT !.Creator = val])

\* case "author"
setCreator(opt, val) ==
  IF opt.Creator # <<>> \/ val = <<>> THEN Stop(opt)
  ELSE Go([opt EXCEPT !.Creator = val])

\* case "no", without the test for a Milestone set before
setNoneOverwrite(opt, val) ==
  IF val = <<"milestone">> THEN Go([opt EXCEPT !.Milestone = <<"none">>])
  ELSE Stop(opt)

\* case "no": the inner switch on val
setNone(opt, val) ==
  IF val = <<"milestone">>
  THEN IF opt.Milestone # <<>> THEN Stop(opt)
       ELSE Go([opt EXCEPT !.Milestone = <<"none">>])
  ELSE Stop(opt)

\* the body of the loop of queryToListOptions, for the field f
applyField(opt, f, tr) ==
  LET i == Index(f, ":")
      key == SubSeq(f, 1, i)
      val == SubSeq(f, i + 2, Len(f))
  IN IF i < 0 THEN Stop(opt)
     ELSE CASE key = <<"milestone">> ->
                 IF opt.Milestone # <<>> \/ val = <<>> THEN Stop(opt)
                 ELSE LET id == findMilestone(val, tr)
                      IN IF id = <<>> THEN Looked(Stop(opt))
                         ELSE Looked(Go([opt EXCEPT !.Milestone = Sprint(id[1])]))
            [] key = <<"state">> ->
                 IF opt.State # <<>> \/ val = <<>> THEN Stop(opt)
                 ELSE Go([opt EXCEPT !.State = val])
            [] key = <<"assignee">> ->
                 IF opt.Assignee # <<>> \/ val = <<>> THEN Stop(opt)
                 ELSE Go([opt EXCEPT !.Assignee = val])
            [] key = <<"author">> -> setCreator(opt, val)
            [] key = <<"mentions">> ->
                 IF opt.Mentioned # <<>> \/ val = <<>> THEN Stop(opt)
                 ELSE Go([opt EXCEPT !.Mentioned = val])
            [] key = <<"label">> ->
                 IF opt.Labels # <<>> \/ val = <<>> THEN Stop(opt)
                 ELSE Go([opt EXCEPT !.Labels = Split(val, ",")])
            [] key = <<"sort">> ->
                 IF opt.Sort # <<>> \/ val = <<>> THEN Stop(opt)
                 ELSE Go([opt EXCEPT !.Sort = val])
            [] key = <<"updated">> ->
                 \* both branches return: Since is never set
                 IF opt.Since # 0 \/ ~HasPrefix(val, <<">=">>) THEN Stop(opt)
                 ELSE Stop(opt)
            [] key = <<"no">> -> setNone(opt, val)
            [] OTHER -> Stop(opt)

\* what a call has done besides computing (opt, ok): the fields its loop has
\* taken up and the findMilestone calls it has made
NoWork == [scanned |-> 0, lookups |-> 0]
Worked(w, r) ==
  [scanned |-> w.scanned + 1, lookups |-> w.lookups + (IF r.looked THEN 1 ELSE 0)]

\* the loop over strings.Fields(q), from the field at the head of fs on
RECURSIVE scanFields(_, _, _, _)
scanFields(fs, opt, tr, w) ==
  IF fs = <<>> THEN [opt |-> opt, ok |-> TRUE, work |-> w]
  ELSE LET r == applyField(opt, Head(fs), tr)
       IN IF r.go THEN scanFields(Tail(fs), r.opt, tr, Worked(w, r))
          ELSE [opt |-> r.opt, ok |-> FALSE, work |-> Worked(w, r)]

\* a compiler that does not look for quote characters
queryToListOptionsNoQuoteTest(q, tr) == scanFields(Fields(q), ZeroOptions, tr, NoWork)

\* queryToListOptions(q): (opt, ok); on ok = false opt is what was set so far
queryToListOptions(q, tr) ==
  IF ContainsAny(q, {DQ, SQ}) THEN [opt |-> ZeroOptions, ok |-> FALSE, work |-> NoWork]
  ELSE scanFields(Fields(q), ZeroOptions, tr, NoWork)

\* qres before the call
NoResult == [opt |-> ZeroOptions, ok |-> FALSE, work |-> NoWork]

\* wrap: max := 70
defaultWrap == 70

\* ------------------------------------------------------------------- state
VARIABLES
  tracker,   \* the open milestones the tracker reports (or its failure)
  q,         \* the query string given to queryToListOptions / searchIssues
  qpc,       \* "ready" | "compiled": queryToListOptions has returned
  qres,      \* what queryToListOptions returned: [opt, ok], and its work
  spc,       \* where searchIssues is: "idle" | "call" | "wait" | "done"
  endpoint,  \* "none" | "list" (Issues.ListByRepo) | "search" (Search.Issues)
  page,      \* the loop variable page
  all,       \* the slice all
  calls,     \* the page calls made so far, in order
  resps,     \* the tracker's answers to them, in order
  ret,       \* what searchIssues returned: [items, err]
  cache,     \* issueCache.m: issue number -> snapshot
  mu,        \* issueCache's mutex: 0 when free, else the process holding it
  proc,      \* per process: the cache operation it runs and that call's locals
  opsStarted,\* cache operations started so far
  lastCommit,\* per identifier: the issue of the last updateIssueCache that stored
  zone,      \* time.Local of the machine printIssue runs on
  ppc,       \* where printIssue is: "idle" | "comments" | "events" | "done"
  ppage,     \* the loop variable page of the loop printIssue is in
  output,    \* the slice output
  arrived,   \* what was appended to output, in order: the item's time and its entry
  written,   \* what printIssue has written to w after the issue's header and body
  perr,      \* printIssue returned an error
  pcalls,    \* the kinds of page calls printIssue has made: of which list,
             \* and whether the call failed
  wt,        \* the text given to wrap
  wprefix,   \* the prefix given to wrap
  wmax,      \* the width wrap works with: 70 or, with -a, the value of -w
  wpc,       \* "ready" | "done": wrap has returned
  wout       \* what wrap returned

vars == <<tracker, q, qpc, qres, spc, endpoint, page, all, calls, resps, ret,
          cache, mu, proc, opsStarted, lastCommit,
          zone, ppc, ppage, output, arrived, written, perr, pcalls,
          wt, wprefix, wmax, wpc, wout>>

wrapVars == <<wt, wprefix, wmax, wpc, wout>>
WrapIdle ==
  wt = <<>> /\ wprefix = <<>> /\ wmax = defaultWrap /\ wpc = "ready" /\ wout = <<>>

printVars == <<zone, ppc, ppage, output, arrived, written, perr, pcalls>>
PrintIdle ==
  /\ zone = [fall |-> 0, by |-> 0] /\ ppc = "idle" /\ ppage = 0
  /\ output = <<>> /\ arrived = <<>> /\ written = <<>> /\ perr = FALSE
  /\ pcalls = {}

queryVars == <<q, qpc, qres>>
fetchVars == <<spc, endpoint, page, all, calls, resps, ret>>

EmptyCache == [n \in {} |-> 0]

QueryIdle == q = <<>> /\ qpc = "ready" /\ qres = NoResult
FetchIdle ==
  /\ spc = "idle" /\ endpoint = "none" /\ page = 0 /\ all = <<>>
  /\ calls = <<>> /\ resps = <<>> /\ ret = [items |-> <<>>, err |-> FALSE]

\* a nil *github.Issue
NilIssue == [num |-> 0, pr |-> FALSE, ver |-> 0, state |-> ""]

\* process 1 is the caller of bulkReadIssuesCached under study; process 2 is
\* what runs beside it: the updateIssueCache calls of showIssue, searchIssues
\* and listRepoIssues, and bulk reads of one identifier
Procs == {1, 2}

\* a process that runs no cache operation
IdleProc ==
  [pc |-> "idle", kind |-> "none", ids |-> <<>>, all |-> <<>>, i |-> 0,
   errbuf |-> <<>>, got |-> NilIssue, err |-> FALSE, msg |-> <<>>,
   begin |-> EmptyCache, tried |-> {}, failures |-> <<>>]

procVars == <<proc, opsStarted, lastCommit>>

CacheIdle ==
  /\ cache = EmptyCache /\ mu = 0
  /\ proc = [p \in Procs |-> IdleProc]
  /\ opsStarted = 0
  /\ lastCommit = EmptyCache

\* ------------------------------------------------- queryToListOptions alone
KeyWords ==
  {"milestone", "state", "assignee", "author", "mentions", "label", "sort",
   "updated", "no", "bogus"}
\* the values tried for key k: none, a plain one, and the one the case of k
\* treats specially
Vals(k) ==
  {<<>>, <<"v">>} \cup
    CASE k = "milestone" -> {<<"Go1.5">>}
      [] k = "label" -> {<<"a", ",", "b">>}
      [] k = "updated" -> {<<">=", "v">>}
      [] k = "no" -> {<<"milestone">>}
      [] OTHER -> {}
Tokens ==
  UNION {{<<k, ":">> \o v : v \in Vals(k)} : k \in KeyWords}
    \cup {<<"v">>, <<"author", ":", "o", SQ, "b">>, <<"state", ":", DQ, "v", DQ>>}

RECURSIVE JoinWith(_, _)
JoinWith(ts, sep) ==
  IF ts = <<>> THEN <<>>
  ELSE IF Len(ts) = 1 THEN ts[1]
  ELSE ts[1] \o <<sep>> \o JoinWith(Tail(ts), sep)

\* ts with x put in after its first a tokens and y after its first b
Around(ts, a, b, x, y) ==
  SubSeq(ts, 1, a) \o <<x>> \o SubSeq(ts, a + 1, b) \o <<y>> \o SubSeq(ts, b + 1, Len(ts))

\* queries that hold no:milestone and a milestone:<name> token, in either
\* order, among up to MaxAround other tokens
BothMilestoneQueries ==
  LET no == <<"no", ":", "milestone">>
      named == {<<"milestone", ":", "Go1.5">>, <<"milestone", ":", "v">>}
      places(n) == {ab \in (0..n) \X (0..n) : ab[1] <= ab[2]}
  IN UNION {UNION {{JoinWith(Around(ts, ab[1], ab[2], no, ms), SP),
                    JoinWith(Around(ts, ab[1], ab[2], ms, no), SP)} :
                     ms \in named, ab \in places(Len(ts))}
             : ts \in UNION {[1..n -> Tokens] : n \in 0..MaxAround}}

Queries ==
  {JoinWith(ts, SP) : ts \in UNION {[1..n -> Tokens] : n \in 0..MaxTokens}}
    \cup BothMilestoneQueries

InitQuery ==
  /\ tracker \in MilestoneWorlds
  /\ q \in Queries /\ qpc = "ready" /\ qres = NoResult
  /\ FetchIdle /\ CacheIdle /\ PrintIdle /\ WrapIdle

\* a call of queryToListOptions(q)
QueryCompile ==
  /\ qpc = "ready"
  /\ qres' = queryToListOptions(q, tracker)
  /\ qpc' = "compiled"
  /\ UNCHANGED <<tracker, printVars, wrapVars, q, fetchVars, cache, mu, procVars>>

NextQuery == QueryCompile

SpecQuery == InitQuery /\ [][NextQuery]_vars

\* ------------------------------------------------------------ issue cache
\* updateIssueCache: n == 0 returns before the lock is taken; issue.num is
\* getInt(issue.Number), 0 for a nil or zero Number
skipsUpdate(issue) == issue.num = 0

\* an update that keeps the entry it finds
updateKeepFirst(c, issue) ==
  IF skipsUpdate(issue) \/ issue.num \in DOMAIN c THEN c
  ELSE [n \in DOMAIN c \cup {issue.num} |-> IF n = issue.num THEN issue ELSE c[n]]

\* updateIssueCache(issue): what issueCache.m is after it
updateIssueCache(c, issue) ==
  IF skipsUpdate(issue) THEN c
  ELSE [n \in DOMAIN c \cup {issue.num} |-> IF n = issue.num THEN issue ELSE c[n]]

\* a page whose items are not handed to updateIssueCache
recordNothing(c, items) == c

\* updateIssueCache on every item of a page, in order
RECURSIVE recordAll(_, _)
recordAll(c, items) ==
  IF items = <<>> THEN c ELSE recordAll(updateIssueCache(c, Head(items)), Tail(items))

\* ------------------------------------------------- searchIssues, listRepoIssues
SeqsUpTo(S, n) == UNION {[1..k -> S] : k \in 0..n}

\* an issue as the tracker delivers it on a page: its number, whether it has
\* PullRequestLinks, which snapshot of the issue it is, and its State
PageIssues == [num : 0..MaxNum, pr : BOOLEAN, ver : {1}, state : {"open", "closed"}]

\* what Issues.ListByRepo may deliver for a filter: the issues in the State
\* asked for, which is open when the filter names none, and any with "all"
ListResults(opt) ==
  {i \in PageIssues :
     \/ opt.State = <<"all">>
     \/ <<i.state>> = (IF opt.State = <<>> THEN <<"open">> ELSE opt.State)}

\* a search that sends the query as it is given
searchTextBare(query) == query

\* the query text searchIssues sends to Search.Issues
searchText(query) ==
  <<"type", ":", "issue", SP, "state", ":", "open", SP, "repo", ":", "PROJECT", SP>>
    \o query

\* what Search.Issues may deliver for a query text: with the qualifier
\* type:issue the tracker's search holds no pull request, with state:open no
\* closed issue
HasQualifier(text, f) == \E i \in 1..Len(Fields(text)) : Fields(text)[i] = f

SearchResults(text) ==
  {i \in PageIssues :
     /\ HasQualifier(text, <<"type", ":", "issue">>) => ~i.pr
     /\ HasQualifier(text, <<"state", ":", "open">>) => i.state = "open"}

\* the filter that ends listRepoIssues: save := all[:0], kept when
\* PullRequestLinks == nil
filterPullRequests(xs) == SelectSeq(xs, LAMBDA i : ~i.pr)

\* a failed page call that gives up what was accumulated: return nil, err
listErrorReturnNothing(xs) == [items |-> <<>>, err |-> TRUE]

\* what listRepoIssues returns when a page call fails: return all, err
listErrorReturn(xs) == [items |-> xs, err |-> TRUE]

\* a listing that returns all instead of save
listReturnUnfiltered(xs) == [items |-> xs, err |-> FALSE]

\* what listRepoIssues returns after its loop: return save, nil
listReturn(xs) == [items |-> filterPullRequests(xs), err |-> FALSE]

\* the loop's exit test: if resp.NextPage < page { break }
lastPage(next, pg) == next < pg

FetchQueries ==
  { <<"state", ":", "open">>,
    <<"state", ":", "closed">>,
    <<"milestone", ":", "Go1.5">>,
    <<"author", ":", "rsc", SP, DQ, "hello", DQ>> }

InitFetch ==
  /\ tracker \in MilestoneWorlds
  /\ q \in FetchQueries /\ qpc = "ready" /\ qres = NoResult
  /\ FetchIdle /\ CacheIdle /\ PrintIdle /\ WrapIdle

\* searchIssues(q) up to its first page call: the structured listing when
\* queryToListOptions says ok, the free-text search otherwise
SearchIssuesBegin ==
  /\ spc = "idle"
  /\ qres' = queryToListOptions(q, tracker)
  /\ qpc' = "compiled"
  /\ endpoint' = IF qres'.ok THEN "list" ELSE "search"
  /\ page' = 1
  /\ all' = <<>>
  /\ spc' = "call"
  /\ UNCHANGED <<tracker, printVars, wrapVars, q, calls, resps, ret, cache, mu, procVars>>

\* listRepoIssues: client.Issues.ListByRepo is called for the page
ListCall ==
  /\ spc = "call" /\ endpoint = "list"
  /\ Len(calls) < MaxReqs
  /\ calls' = Append(calls, [endpoint |-> "list", page |-> page,
                             opt |-> qres.opt, text |-> <<>>])
  /\ spc' = "wait"
  /\ UNCHANGED <<tracker, printVars, wrapVars, queryVars, endpoint, page, all, resps, ret, cache, mu, procVars>>

\* listRepoIssues: the call returns (issues, resp, err); the rest of the loop
\* body and, when the loop ends, the rest of the function
ListReturn ==
  /\ spc = "wait" /\ endpoint = "list"
  /\ \E items \in SeqsUpTo(ListResults(calls[Len(calls)].opt), MaxAll - Len(all)),
        next \in 0..MaxPage, err \in BOOLEAN :
       /\ resps' = Append(resps, [items |-> items, next |-> next, err |-> err])
       /\ cache' = recordAll(cache, items)
       /\ all' = all \o items
       /\ IF err
          THEN /\ ret' = listErrorReturn(all')
               /\ spc' = "done"
               /\ page' = page
          ELSE IF lastPage(next, page)
          THEN /\ ret' = listReturn(all')
               /\ spc' = "done"
               /\ page' = page
          ELSE /\ ret' = ret
               /\ spc' = "call"
               /\ page' = next
  /\ UNCHANGED <<tracker, printVars, wrapVars, queryVars, endpoint, calls, mu, procVars>>

\* searchIssues: client.Search.Issues is called for the page
SearchCall ==
  /\ spc = "call" /\ endpoint = "search"
  /\ Len(calls) < MaxReqs
  /\ calls' = Append(calls, [endpoint |-> "search", page |-> page,
                             opt |-> ZeroOptions, text |-> searchText(q)])
  /\ spc' = "wait"
  /\ UNCHANGED <<tracker, printVars, wrapVars, queryVars, endpoint, page, all, resps, ret, cache, mu, procVars>>

\* searchIssues: the call returns (x, resp, err); the rest of the loop body
\* and, when the loop ends, the return
SearchReturn ==
  /\ spc = "wait" /\ endpoint = "search"
  /\ \E items \in SeqsUpTo(SearchResults(calls[Len(calls)].text), MaxAll - Len(all)),
        next \in 0..MaxPage, err \in BOOLEAN :
       /\ resps' = Append(resps, [items |-> items, next |-> next, err |-> err])
       /\ cache' = recordAll(cache, items)
       /\ all' = all \o items
       /\ IF err
          THEN /\ ret' = [items |-> all', err |-> TRUE]
               /\ spc' = "done"
               /\ page' = page
          ELSE IF lastPage(next, page)
          THEN /\ ret' = [items |-> all', err |-> FALSE]
               /\ spc' = "done"
               /\ page' = page
          ELSE /\ ret' = ret
               /\ spc' = "call"
               /\ page' = next
  /\ UNCHANGED <<tracker, printVars, wrapVars, queryVars, endpoint, calls, mu, procVars>>

NextFetch ==
  \/ SearchIssuesBegin
  \/ ListCall
  \/ ListReturn
  \/ SearchCall
  \/ SearchReturn

SpecFetch == InitFetch /\ [][NextFetch]_vars

\* ------------------------------------- updateIssueCache, bulkReadIssuesCached
\* strings.TrimSpace
IsSpace(c) == c \in {SP, NL, "\t", "\r"}

RECURSIVE TrimLeft(_)
TrimLeft(s) == IF s # <<>> /\ IsSpace(Head(s)) THEN TrimLeft(Tail(s)) ELSE s

RECURSIVE TrimRight(_)
TrimRight(s) ==
  IF s # <<>> /\ IsSpace(s[Len(s)]) THEN TrimRight(SubSeq(s, 1, Len(s) - 1)) ELSE s

TrimSpace(s) == TrimRight(TrimLeft(s))

\* the texts of the errors client.Issues.Get fails with
Errs == {<<"404", SP, "Not", SP, "Found">>}

\* what the tracker may answer to Get(id): a snapshot of issue id
Snapshots(id) == [num : {id}, pr : {FALSE}, ver : Vers, state : {"open"}]

\* the issues other operations (showIssue, searchIssues, listRepoIssues) hand
\* to updateIssueCache
Updates == [num : {0} \cup Ids, pr : {FALSE}, ver : Vers, state : {"open"}]

\* fmt.Fprintf(&errbuf, "reading #%d: %v\n", id, err)
errLine(id, e) == <<"reading", SP, "#">> \o Sprint(id) \o <<":", SP>> \o e \o <<NL>>

\* a first loop that looks nothing up
snapshotNothing(c, ids) == [k \in 1..Len(ids) |-> NilIssue]

\* a first loop that looks up the loop index instead of the identifier
snapshotByIndex(c, ids) ==
  [k \in 1..Len(ids) |-> IF k \in DOMAIN c THEN c[k] ELSE NilIssue]

\* the first loop of bulkReadIssuesCached: all = append(all, issueCache.m[id])
snapshotOf(c, ids) ==
  [k \in 1..Len(ids) |-> IF ids[k] \in DOMAIN c THEN c[ids[k]] ELSE NilIssue]

\* a second loop that fetches every position
needsFetchAlways(x) == TRUE

\* the test of the second loop: all[i] == nil
needsFetch(x) == x = NilIssue

\* the end of bulkReadIssuesCached: err is set when errbuf holds anything
bulkReturn(r) ==
  [r EXCEPT !.pc = "done",
            !.err = Len(r.errbuf) > 0,
            !.msg = IF Len(r.errbuf) > 0 THEN TrimSpace(r.errbuf) ELSE <<>>]

\* the second loop from position r.i on, up to its next client.Issues.Get call
\* (r.pc = "get": the call for position r.i is in progress) or to the return
advance(r) ==
  LET todo == {k \in r.i..Len(r.ids) : needsFetch(r.all[k])}
  IN IF todo = {} THEN bulkReturn([r EXCEPT !.i = Len(r.ids) + 1])
     ELSE LET k == CHOOSE k \in todo : \A j \in todo : k <= j
          IN [r EXCEPT !.i = k, !.pc = "get", !.tried = @ \cup {k}]

\* a failed Get that ends the batch
afterFailureAbort(r, e) ==
  bulkReturn([r EXCEPT !.errbuf = @ \o errLine(r.ids[r.i], e),
                       !.failures = Append(@, [pos |-> r.i, id |-> r.ids[r.i], e |-> e])])

\* err != nil: the line is written to errbuf, and continue
afterFailure(r, e) ==
  advance([r EXCEPT !.errbuf = @ \o errLine(r.ids[r.i], e),
                    !.failures = Append(@, [pos |-> r.i, id |-> r.ids[r.i], e |-> e]),
                    !.i = @ + 1])

\* bulkReadIssuesCached(ids) is called
BulkBegin(p) ==
  /\ proc[p].pc \in {"idle", "done"}
  /\ opsStarted < MaxOps
  /\ \E ids \in (IF p = 1 THEN SeqsUpTo(Ids, MaxIds) ELSE {<<id>> : id \in Ids}) :
       proc' = [proc EXCEPT ![p] = [IdleProc EXCEPT !.pc = "snap", !.kind = "bulk",
                                                   !.ids = ids]]
  /\ opsStarted' = opsStarted + 1
  /\ UNCHANGED <<tracker, printVars, wrapVars, queryVars, fetchVars, cache, mu, lastCommit>>

\* a bulkReadIssuesCached that goes on to its first loop without the lock
BulkLockSkipped(p) ==
  /\ proc[p].pc = "snap"
  /\ mu' = mu
  /\ proc' = [proc EXCEPT ![p].pc = "snapLocked"]
  /\ UNCHANGED <<tracker, printVars, wrapVars, queryVars, fetchVars, cache, opsStarted, lastCommit>>

\* bulkReadIssuesCached: issueCache.Lock()
BulkLock(p) ==
  /\ proc[p].pc = "snap"
  /\ mu = 0
  /\ mu' = p
  /\ proc' = [proc EXCEPT ![p].pc = "snapLocked"]
  /\ UNCHANGED <<tracker, printVars, wrapVars, queryVars, fetchVars, cache, opsStarted, lastCommit>>

\* bulkReadIssuesCached: the first loop, issueCache.Unlock(), and the second
\* loop up to its first Get call
BulkSnapshot(p) ==
  /\ proc[p].pc = "snapLocked"
  /\ mu = p
  /\ mu' = 0
  /\ proc' = [proc EXCEPT ![p] =
                advance([proc[p] EXCEPT !.all = snapshotOf(cache, proc[p].ids),
                                        !.i = 1, !.begin = cache])]
  /\ UNCHANGED <<tracker, printVars, wrapVars, queryVars, fetchVars, cache, opsStarted, lastCommit>>

\* bulkReadIssuesCached: client.Issues.Get(id) returns an issue
BulkGetOk(p) ==
  /\ proc[p].pc = "get"
  /\ \E issue \in Snapshots(proc[p].ids[proc[p].i]) :
       proc' = [proc EXCEPT ![p].got = issue, ![p].pc = "upd"]
  /\ UNCHANGED <<tracker, printVars, wrapVars, queryVars, fetchVars, cache, mu, opsStarted, lastCommit>>

\* bulkReadIssuesCached: client.Issues.Get(id) returns an error
BulkGetFail(p) ==
  /\ proc[p].pc = "get"
  /\ \E e \in Errs : proc' = [proc EXCEPT ![p] = afterFailure(proc[p], e)]
  /\ UNCHANGED <<tracker, printVars, wrapVars, queryVars, fetchVars, cache, mu, opsStarted, lastCommit>>

\* another operation calls updateIssueCache(issue); a zero number returns at once
UpdateBegin(p) ==
  /\ p = 2
  /\ proc[p].pc \in {"idle", "done"}
  /\ opsStarted < MaxOps
  /\ \E issue \in Updates :
       proc' = [proc EXCEPT ![p] =
                  [IdleProc EXCEPT !.kind = "update", !.got = issue,
                                   !.pc = IF skipsUpdate(issue) THEN "done" ELSE "updLock"]]
  /\ opsStarted' = opsStarted + 1
  /\ UNCHANGED <<tracker, printVars, wrapVars, queryVars, fetchVars, cache, mu, lastCommit>>

\* what the tracker may answer to showIssue's Get(n): a snapshot of issue n,
\* or an issue whose Number is not set
ShowAnswers(n) == {u \in Updates : u.num \in {0, n}}

\* showIssue(w, n) up to the lock of its updateIssueCache call: Get fails and
\* showIssue returns nil and the error, or Get answers and updateIssueCache is
\* called (a zero number returns at once); "done" is then the return of
\* updateIssueCache, after which printIssue writes the issue
ShowIssueGet(p) ==
  /\ p = 2
  /\ proc[p].pc \in {"idle", "done"}
  /\ opsStarted < MaxOps
  /\ \E n \in Ids :
       \/ \E e \in Errs :
            proc' = [proc EXCEPT ![p] =
                       [IdleProc EXCEPT !.kind = "show", !.ids = <<n>>, !.pc = "done",
                                        !.err = TRUE, !.msg = e]]
       \/ \E issue \in ShowAnswers(n) :
            proc' = [proc EXCEPT ![p] =
                       [IdleProc EXCEPT !.kind = "show", !.ids = <<n>>, !.got = issue,
                                        !.pc = IF skipsUpdate(issue) THEN "done"
                                               ELSE "updLock"]]
  /\ opsStarted' = opsStarted + 1
  /\ UNCHANGED <<tracker, printVars, wrapVars, queryVars, fetchVars, cache, mu, lastCommit>>

\* updateIssueCache: issueCache.Lock(), called from bulkReadIssuesCached
\* (pc = "upd") or from another operation (pc = "updLock")
CacheLock(p) ==
  /\ proc[p].pc \in {"upd", "updLock"}
  /\ mu = 0
  /\ mu' = p
  /\ proc' = [proc EXCEPT ![p].pc = "updLocked"]
  /\ UNCHANGED <<tracker, printVars, wrapVars, queryVars, fetchVars, cache, opsStarted, lastCommit>>

\* updateIssueCache: issueCache.m[n] = issue and issueCache.Unlock(); in
\* bulkReadIssuesCached then all[i] = issue and the loop goes on
CacheStore(p) ==
  /\ proc[p].pc = "updLocked"
  /\ mu = p
  /\ mu' = 0
  /\ cache' = updateIssueCache(cache, proc[p].got)
  /\ lastCommit' = [n \in DOMAIN lastCommit \cup {proc[p].got.num} |->
                      IF n = proc[p].got.num THEN proc[p].got ELSE lastCommit[n]]
  /\ proc' = [proc EXCEPT ![p] =
                IF proc[p].kind = "bulk"
                THEN advance([proc[p] EXCEPT !.all[proc[p].i] = proc[p].got,
                                             !.i = proc[p].i + 1])
                ELSE [proc[p] EXCEPT !.pc = "done"]]
  /\ UNCHANGED <<tracker, printVars, wrapVars, queryVars, fetchVars, opsStarted>>

InitCache ==
  /\ tracker \in {tr \in MilestoneWorlds : ~tr.err /\ tr.all = <<>>}
  /\ QueryIdle /\ FetchIdle /\ CacheIdle /\ PrintIdle /\ WrapIdle

NextCache ==
  \E p \in Procs :
    \/ BulkBegin(p)
    \/ BulkLock(p)
    \/ BulkSnapshot(p)
    \/ BulkGetOk(p)
    \/ BulkGetFail(p)
    \/ UpdateBegin(p)
    \/ CacheLock(p)
    \/ CacheStore(p)

SpecCache == InitCache /\ [][NextCache]_vars

\* ------------------------------------------------- every operation that obtains issues
\* the run is one searchIssues(q) call; otherwise it is a run of the operations
\* that fetch single issues: bulkReadIssuesCached in process 1, showIssue in
\* process 2
SearchRun == q # <<>>

\* the milestone list plays no part in what is recorded: it is empty here
InitThrough ==
  /\ tracker \in {tr \in MilestoneWorlds : ~tr.err /\ tr.all = <<>>}
  /\ q \in FetchQueries \cup {<<>>} /\ qpc = "ready" /\ qres = NoResult
  /\ FetchIdle /\ CacheIdle /\ PrintIdle /\ WrapIdle

NextThrough ==
  \/ SearchRun /\ SearchIssuesBegin
  \/ SearchRun /\ ListCall
  \/ SearchRun /\ ListReturn
  \/ SearchRun /\ SearchCall
  \/ SearchRun /\ SearchReturn
  \/ \E p \in Procs : ~SearchRun /\ p = 1 /\ BulkBegin(p)
  \/ \E p \in Procs : ~SearchRun /\ BulkLock(p)
  \/ \E p \in Procs : ~SearchRun /\ BulkSnapshot(p)
  \/ \E p \in Procs : ~SearchRun /\ BulkGetOk(p)
  \/ \E p \in Procs : ~SearchRun /\ BulkGetFail(p)
  \/ \E p \in Procs : ~SearchRun /\ ShowIssueGet(p)
  \/ \E p \in Procs : ~SearchRun /\ CacheLock(p)
  \/ \E p \in Procs : ~SearchRun /\ CacheStore(p)

SpecThrough == InitThrough /\ [][NextThrough]_vars

\* ------------------------------------------------- properties of the retrieval
\* the items of the answers rs, page after page
RECURSIVE ConcatItems(_)
ConcatItems(rs) == IF rs = <<>> THEN <<>> ELSE Head(rs).items \o ConcatItems(Tail(rs))

\* xs without its pull requests, order kept
RECURSIVE OnlyIssues(_)
OnlyIssues(xs) ==
  IF xs = <<>> THEN <<>>
  ELSE IF Head(xs).pr THEN OnlyIssues(Tail(xs))
  ELSE <<Head(xs)>> \o OnlyIssues(Tail(xs))

\* C1: a pagination loop halts exactly when a successful page reports a
\* next-page indicator less than or equal to the page just requested, and
\* requests no page after that one.
C1_HaltsWhenNextNotAbovePage ==
  /\ \A k \in 1..Len(resps) :
       (~resps[k].err /\ resps[k].next <= calls[k].page)
         => (Len(calls) = k /\ spc = "done")
  /\ (spc = "done" /\ ~ret.err)
       => resps[Len(resps)].next <= calls[Len(resps)].page

\* C2: no sequence searchIssues returns, with or without an error, holds a
\* pull request.
C2_NoPullRequestReturned ==
  spc = "done" => \A i \in 1..Len(ret.items) : ~ret.items[i].pr

\* C3: page calls are made one at a time, each after the one before has
\* returned; a failed page call is the last one, and searchIssues returns its
\* error with every item delivered so far, the failing call's included, in
\* page order.
C3_ErrorReturnsAllItemsSoFar ==
  /\ Len(calls) = Len(resps) + (IF spc = "wait" THEN 1 ELSE 0)
  /\ \A k \in 1..Len(resps) :
       resps[k].err =>
         /\ k = Len(resps) /\ Len(calls) = k
         /\ spc = "done"
         /\ ret.err
         /\ ret.items = ConcatItems(resps)

\* a listing whose second page call failed after both calls delivered items
C3_Witness ==
  /\ spc = "done" /\ ret.err /\ endpoint = "list"
  /\ Len(resps) = 2 /\ resps[1].items # <<>> /\ resps[2].items # <<>>
  /\ calls[2].page = 2
  /\ ret.items[1] # ret.items[2]

\* C4: when no page call fails, the returned sequence is the items of all pages
\* requested, in page order and in their order on the page (for the structured
\* listing: those that are not pull requests); the free-text count is the sum of
\* the pages' counts.
C4_ReturnsPagesInOrder ==
  (spc = "done" /\ ~ret.err) =>
    /\ ret.items = IF endpoint = "list" THEN OnlyIssues(ConcatItems(resps))
                   ELSE ConcatItems(resps)
    /\ \A k \in 1..Len(resps) : ~resps[k].err

\* a listing of two pages that returned two issues and dropped a pull request
C4_Witness ==
  /\ spc = "done" /\ ~ret.err /\ endpoint = "list"
  /\ Len(resps) = 2 /\ resps[1].items # <<>> /\ resps[2].items # <<>>
  /\ calls[2].page = 2
  /\ Len(ret.items) = 1 /\ Len(ConcatItems(resps)) = 2

\* ------------------------------------------------- properties of the cache
\* process p runs bulkReadIssuesCached and has taken its snapshot of the cache
Snapped(p) == proc[p].kind = "bulk" /\ proc[p].pc \notin {"snap", "snapLocked"}

\* process p has returned from bulkReadIssuesCached
Returned(p) == proc[p].kind = "bulk" /\ proc[p].pc = "done"

\* the line of one failure, without its newline
FailureLine(f) == <<"reading", SP, "#">> \o Sprint(f.id) \o <<":", SP>> \o f.e

\* C5: bulkReadIssuesCached(ids) returns one entry per identifier, entry k for
\* ids[k]; a position whose identifier is in the cache when the call takes its
\* snapshot holds that cached snapshot and is not fetched; only positions whose
\* identifier is not cached are fetched.
C5_CachedPositionsNotFetched ==
  \A p \in Procs :
    Snapped(p) =>
      LET r == proc[p]
      IN /\ Len(r.all) = Len(r.ids)
         /\ \A k \in 1..Len(r.ids) :
              /\ r.all[k] # NilIssue => r.all[k].num = r.ids[k]
              /\ r.ids[k] \in DOMAIN r.begin
                   => (r.all[k] = r.begin[r.ids[k]] /\ k \notin r.tried)
              /\ k \in r.tried => r.ids[k] \notin DOMAIN r.begin

\* bulkReadIssuesCached([1, 1, 2]) with 1 cached and 2 not: one fetch, for
\* position 3, and the first two entries are the cached snapshot
C5_Witness ==
  /\ Returned(1) /\ proc[1].ids = <<1, 1, 2>>
  /\ DOMAIN proc[1].begin = {1}
  /\ proc[1].tried = {3}
  /\ proc[1].all[1] = proc[1].all[2] /\ proc[1].all[1] = proc[1].begin[1]
  /\ proc[1].all[3] # NilIssue /\ ~proc[1].err

\* C6 as claimed: in the result of one call, any two positions that hold the
\* same identifier hold the identical snapshot, cached at the start or not.
C6_SameIdSameSnapshot ==
  \A p \in Procs :
    Returned(p) =>
      \A j, k \in 1..Len(proc[p].ids) :
        proc[p].ids[j] = proc[p].ids[k] => proc[p].all[j] = proc[p].all[k]

\* C6 as amended: two positions that hold the same identifier hold the
\* identical snapshot when the identifier is cached as the call takes its
\* snapshot; when it is not, each of the positions is fetched on its own.
C6_CachedSameIdSameSnapshot ==
  \A p \in Procs :
    Returned(p) =>
      \A j, k \in 1..Len(proc[p].ids) :
        proc[p].ids[j] = proc[p].ids[k] =>
          IF proc[p].ids[j] \in DOMAIN proc[p].begin
          THEN proc[p].all[j] = proc[p].all[k] /\ proc[p].all[j] # NilIssue
          ELSE j \in proc[p].tried /\ k \in proc[p].tried

\* a call for [2, 1, 2] with 2 cached: positions 1 and 3 agree, position 2 was
\* fetched
C6_Witness ==
  /\ Returned(1) /\ proc[1].ids = <<2, 1, 2>>
  /\ DOMAIN proc[1].begin = {2}
  /\ proc[1].all[1] = proc[1].all[3] /\ proc[1].all[1] # NilIssue
  /\ proc[1].tried = {2}

\* C7: a failed fetch does not end the batch: the cache is left as it is, the
\* position keeps nil, the loop goes on to the next position that needs a
\* fetch; at the return every position not cached was tried, the nil positions
\* are the failed ones, and the error is non-nil exactly when a fetch failed,
\* its message the failures' lines joined by newlines in request order.
C7_Step ==
  \A p \in Procs :
    LET r == proc[p]
        r2 == proc'[p]
        todo == {k \in (r.i + 1)..Len(r.ids) : r.all[k] = NilIssue}
    IN /\ (r.kind = "bulk" /\ r.pc = "get" /\ Len(r2.failures) = Len(r.failures) + 1)
            => /\ cache' = cache
               /\ r2.all = r.all /\ r2.all[r.i] = NilIssue
               /\ r2.failures[Len(r2.failures)].pos = r.i
               /\ IF todo = {} THEN r2.pc = "done"
                  ELSE r2.pc = "get" /\ r2.i \in todo /\ \A k \in todo : r2.i <= k
       /\ (r.kind = "bulk" /\ r.pc # "done" /\ r2.pc = "done")
            => /\ r2.err = (r2.failures # <<>>)
               /\ r2.err => r2.msg = JoinWith([k \in 1..Len(r2.failures) |->
                                                   FailureLine(r2.failures[k])], NL)
               /\ \A k \in 1..Len(r2.ids) :
                    /\ (r2.all[k] = NilIssue)
                          = (\E m \in 1..Len(r2.failures) : r2.failures[m].pos = k)
                    /\ r2.ids[k] \notin DOMAIN r2.begin => k \in r2.tried
               /\ \A m, n \in 1..Len(r2.failures) :
                    m < n => r2.failures[m].pos < r2.failures[n].pos

C7_FailedFetchDoesNotAbort == [][C7_Step]_vars

\* a call for [1, 2, 1] whose fetches of 1 both failed and whose fetch of 2,
\* between them, succeeded
C7_Witness ==
  /\ Returned(1) /\ proc[1].ids = <<1, 2, 1>>
  /\ Len(proc[1].failures) = 2
  /\ proc[1].all[1] = NilIssue /\ proc[1].all[2] # NilIssue /\ proc[1].all[3] = NilIssue
  /\ proc[1].err /\ Len(proc[1].msg) > Len(FailureLine(proc[1].failures[1])) + 1
  /\ DOMAIN cache = {2}

\* the fetches that have succeeded, as <<process, position>>
FetchedOk(p) ==
  {k \in proc[p].tried :
     \/ proc[p].all[k] # NilIssue
     \/ (proc[p].pc \in {"upd", "updLocked"} /\ proc[p].i = k)}

\* C8 as claimed: lookups of one identifier that is not cached yet, in
\* overlapping calls or repeated inside one call, lead to at most one fetch.
C8_AtMostOneFetchPerId ==
  \A id \in Ids :
    Cardinality({pk \in Procs \X (1..MaxIds) :
                   /\ proc[pk[1]].kind = "bulk"
                   /\ pk[2] \in FetchedOk(pk[1])
                   /\ proc[pk[1]].ids[pk[2]] = id}) <= 1

\* C8 as amended: a call issues a fetch for an identifier only if the
\* identifier was not in the cache when the call took its snapshot, so a call
\* that begins once the identifier is cached never fetches it; lookups in
\* flight are not deduplicated.
C8_Step ==
  \A p \in Procs :
    (proc'[p].kind = "bulk" /\ proc'[p].pc = "get"
       /\ (proc[p].pc # "get" \/ proc[p].i # proc'[p].i))
      => /\ proc'[p].ids[proc'[p].i] \notin DOMAIN proc'[p].begin
         /\ \A n \in DOMAIN proc'[p].begin :
              \A k \in 1..Len(proc'[p].ids) :
                proc'[p].ids[k] = n => k \notin proc'[p].tried

C8_FetchOnlyIfAbsentAtSnapshot == [][C8_Step]_vars

\* process 1 fetches an identifier that process 2 has cached since process 1
\* took its snapshot
C8_Witness ==
  /\ proc[1].kind = "bulk" /\ proc[1].pc = "get"
  /\ proc[1].ids[proc[1].i] \in DOMAIN cache
  /\ proc[1].ids[proc[1].i] \notin DOMAIN proc[1].begin
  /\ proc[2].kind = "bulk" /\ proc[2].pc = "done"
  /\ proc[2].ids = <<proc[1].ids[proc[1].i]>>

\* C9: an update with a non-zero number n sets entry n to its issue and leaves
\* the other entries alone; an update with a zero number, and every other
\* step, leaves the cache alone; entry n is the issue of the last update stored
\* for n, key 0 is never present and no entry is removed.
C9_Step ==
  LET storing == {p \in Procs : proc[p].pc = "updLocked" /\ proc'[p].pc # "updLocked"}
  IN /\ 0 \notin DOMAIN cache'
     /\ DOMAIN cache \subseteq DOMAIN cache'
     /\ storing = {} => cache' = cache
     /\ \A p \in storing :
          LET n == proc[p].got.num
          IN /\ n # 0
             /\ DOMAIN cache' = DOMAIN cache \cup {n}
             /\ cache'[n] = proc[p].got
             /\ \A k \in DOMAIN cache \ {n} : cache'[k] = cache[k]
     /\ \A p \in Procs :
          (proc'[p].kind = "update" /\ proc'[p].got.num = 0)
            => proc'[p].pc = "done"
     /\ DOMAIN lastCommit' = DOMAIN cache'
     /\ \A n \in DOMAIN cache' : cache'[n] = lastCommit'[n]

C9_UpdateSetsOnlyItsEntry == [][C9_Step]_vars

\* entry 1 was stored by process 1's bulk read and then overwritten by an
\* update of process 2, which left entry 2 alone
C9_Witness ==
  /\ Returned(1) /\ proc[1].ids = <<1, 2>>
  /\ proc[1].all = <<[num |-> 1, pr |-> FALSE, ver |-> 1, state |-> "open"],
                     [num |-> 2, pr |-> FALSE, ver |-> 1, state |-> "open"]>>
  /\ proc[1].tried = {1, 2}
  /\ proc[2].kind = "update" /\ proc[2].pc = "done"
  /\ proc[2].got = [num |-> 1, pr |-> FALSE, ver |-> 2, state |-> "open"]
  /\ cache[1] = proc[2].got /\ cache[2] = proc[1].all[2]

\* ------------------------------------------- properties of queryToListOptions
HasColon(f) == \E i \in 1..Len(f) : f[i] = ":"
ColonAt(f) == CHOOSE i \in 1..Len(f) : f[i] = ":" /\ \A j \in 1..(i - 1) : f[j] # ":"
KeyOf(f) == [i \in 1..(ColonAt(f) - 1) |-> f[i]]
ValOf(f) == [i \in 1..(Len(f) - ColonAt(f)) |-> f[ColonAt(f) + i]]

\* the keys the compiler knows
RecognizedKeys ==
  {<<"milestone">>, <<"state">>, <<"assignee">>, <<"author">>, <<"mentions">>,
   <<"label">>, <<"sort">>, <<"updated">>, <<"no">>}

\* the keys it can put in a filter
FilterKeys == RecognizedKeys \ {<<"updated">>}

\* every token of qq is key:value with a recognized key and a non-empty value,
\* and no key comes twice
WellFormed(qq, keys) ==
  LET fs == Fields(qq)
  IN \A k \in 1..Len(fs) :
       /\ HasColon(fs[k])
       /\ KeyOf(fs[k]) \in keys
       /\ ValOf(fs[k]) # <<>>
       /\ \A j \in 1..Len(fs) :
            (j # k /\ HasColon(fs[j])) => KeyOf(fs[j]) # KeyOf(fs[k])

HasKey(qq, key) ==
  \E k \in 1..Len(Fields(qq)) : HasColon(Fields(qq)[k]) /\ KeyOf(Fields(qq)[k]) = key

\* the value given for key, "" when the key is not in the query
Val(qq, key) ==
  IF HasKey(qq, key)
  THEN ValOf(Fields(qq)[CHOOSE k \in 1..Len(Fields(qq)) :
                           HasColon(Fields(qq)[k]) /\ KeyOf(Fields(qq)[k]) = key])
  ELSE <<>>

\* the milestone token, when there is one, names an open milestone
MilestoneResolves(qq) ==
  HasKey(qq, <<"milestone">>) =>
    /\ ~tracker.err
    /\ \E m \in 1..Len(tracker.all) : tracker.all[m].Title = Val(qq, <<"milestone">>)

\* the number a string of decimal digits denotes, -1 for any other string
RECURSIVE DecimalValue(_)
DecimalValue(s) ==
  IF s = <<>> \/ \E i \in 1..Len(s) : \A d \in 0..9 : Digit(d) # s[i] THEN -1
  ELSE LET last == CHOOSE d \in 0..9 : Digit(d) = s[Len(s)]
       IN IF Len(s) = 1 THEN last
          ELSE 10 * DecimalValue(SubSeq(s, 1, Len(s) - 1)) + last

\* C10 as claimed: a query whose tokens are all recognized key:value pairs with
\* non-empty values and no repeated key (its milestone, if any, being an open
\* one) compiles: ok = true.
C10_RecognizedPairsCompile ==
  (qpc = "compiled" /\ WellFormed(q, RecognizedKeys) /\ MilestoneResolves(q))
    => qres.ok

\* the query is one the compiler accepts
Compilable(qq) ==
  /\ ~\E i \in 1..Len(qq) : qq[i] \in {DQ, SQ}
  /\ WellFormed(qq, FilterKeys)
  /\ HasKey(qq, <<"no">>)
       => (Val(qq, <<"no">>) = <<"milestone">> /\ ~HasKey(qq, <<"milestone">>))
  /\ MilestoneResolves(qq)

\* opt holds the pairs of qq and nothing else
Encodes(opt, qq) ==
  /\ opt.State = Val(qq, <<"state">>)
  /\ opt.Assignee = Val(qq, <<"assignee">>)
  /\ opt.Creator = Val(qq, <<"author">>)
  /\ opt.Mentioned = Val(qq, <<"mentions">>)
  /\ opt.Sort = Val(qq, <<"sort">>)
  /\ opt.Since = 0
  /\ IF HasKey(qq, <<"label">>)
     THEN /\ JoinWith(opt.Labels, ",") = Val(qq, <<"label">>)
          /\ \A l \in 1..Len(opt.Labels) : \A i \in 1..Len(opt.Labels[l]) :
               opt.Labels[l][i] # ","
     ELSE opt.Labels = <<>>
  /\ IF HasKey(qq, <<"milestone">>)
     THEN LET m == CHOOSE m \in 1..Len(tracker.all) :
                     /\ tracker.all[m].Title = Val(qq, <<"milestone">>)
                     /\ \A j \in 1..(m - 1) :
                          tracker.all[j].Title # Val(qq, <<"milestone">>)
          IN DecimalValue(opt.Milestone) = tracker.all[m].Number
     ELSE IF HasKey(qq, <<"no">>) THEN opt.Milestone = <<"none">>
     ELSE opt.Milestone = <<>>

\* C10 as amended: a query without a quote character whose tokens are all
\* key:value pairs with a key among milestone, state, assignee, author,
\* mentions, label, sort and no, a non-empty value and no repeated key, where no
\* has the value milestone and comes without a milestone token, and where the
\* milestone named is an open one, compiles to ok = true and to the filter that
\* holds exactly those pairs (author as creator, label split on commas,
\* milestone as the decimal number of the open milestone, no:milestone as the
\* milestone "none"); a query with an updated token, or with no:<other>, gives
\* ok = false.
C10_FilterKeysCompileExactly ==
  qpc = "compiled" =>
    /\ Compilable(q) => (qres.ok /\ Encodes(qres.opt, q))
    /\ (\E k \in 1..Len(Fields(q)) :
          /\ HasColon(Fields(q)[k])
          /\ \/ KeyOf(Fields(q)[k]) = <<"updated">>
             \/ (KeyOf(Fields(q)[k]) = <<"no">> /\ ValOf(Fields(q)[k]) # <<"milestone">>))
         => ~qres.ok

\* "milestone:Go1.5 label:a,b" with milestone Go1.5 numbered 42
C10_Witness ==
  /\ qpc = "compiled" /\ Compilable(q) /\ qres.ok
  /\ Len(Fields(q)) = 2
  /\ qres.opt.Milestone = <<"4", "2">>
  /\ qres.opt.Labels = <<<<"a">>, <<"b">>>>

\* C11: a query with a quote character anywhere gives ok = false, and the call
\* returns before its loop: no field is taken up, no milestone is looked up
\* and opt is the zero filter.
C11_QuoteRejectedBeforeScan ==
  (qpc = "compiled" /\ \E i \in 1..Len(q) : q[i] \in {DQ, SQ})
    => /\ ~qres.ok
       /\ qres.work = NoWork
       /\ qres.opt = ZeroOptions

\* a quoted query that also names the open milestone Go1.5, which the loop
\* would have looked up
C11_Witness ==
  /\ qpc = "compiled" /\ ~qres.ok
  /\ \E i \in 1..Len(q) : q[i] = DQ
  /\ Fields(q)[1] = <<"milestone", ":", "Go1.5">>
  /\ ~tracker.err /\ tracker.all # <<>>

\* no open milestone is titled name (or the list could not be had)
NoOpenMilestone(name) ==
  tracker.err \/ \A m \in 1..Len(tracker.all) : tracker.all[m].Title # name

\* token k of qq is one the compiler cannot take: no colon, an empty value, a
\* key it does not know, a milestone that is not open, or a key seen before
BadToken(qq, k) ==
  LET fs == Fields(qq)
  IN \/ ~HasColon(fs[k])
     \/ /\ HasColon(fs[k])
        /\ \/ ValOf(fs[k]) = <<>>
           \/ KeyOf(fs[k]) \notin RecognizedKeys
           \/ KeyOf(fs[k]) = <<"milestone">> /\ NoOpenMilestone(ValOf(fs[k]))
           \/ \E j \in 1..(k - 1) : HasColon(fs[j]) /\ KeyOf(fs[j]) = KeyOf(fs[k])

\* C12: a query with a token that has no colon, an empty value, an
\* unrecognized key, a milestone name that matches no open milestone, or a
\* recognized key for the second time gives ok = false; so a query that gives
\* ok = true had every one of its tokens taken up, each with a key of its own.
C12_BadTokenRejected ==
  qpc = "compiled" =>
    /\ (\E k \in 1..Len(Fields(q)) : BadToken(q, k)) => ~qres.ok
    /\ qres.ok =>
         /\ qres.work.scanned = Len(Fields(q))
         /\ \A j, k \in 1..Len(Fields(q)) :
              j # k => KeyOf(Fields(q)[j]) # KeyOf(Fields(q)[k])

\* "state:v state:v": the second token is reached and rejected
C12_Witness ==
  /\ qpc = "compiled" /\ ~qres.ok
  /\ Fields(q) = <<<<"state", ":", "v">>, <<"state", ":", "v">>>>
  /\ qres.work.scanned = 2
  /\ qres.opt.State = <<"v">>

\* C13: a query that holds both no:milestone and a milestone:<name> token, in
\* either order and with any tokens around them, gives ok = false.
C13_NoMilestoneExcludesMilestone ==
  (/\ qpc = "compiled"
   /\ \E k \in 1..Len(Fields(q)) : Fields(q)[k] = <<"no", ":", "milestone">>
   /\ \E k \in 1..Len(Fields(q)) :
        /\ HasColon(Fields(q)[k])
        /\ KeyOf(Fields(q)[k]) = <<"milestone">> /\ ValOf(Fields(q)[k]) # <<>>)
    => ~qres.ok

\* "state:v no:milestone milestone:Go1.5" with Go1.5 open: the third token is
\* reached with Milestone already "none"
C13_Witness ==
  /\ qpc = "compiled" /\ ~qres.ok
  /\ Fields(q) = <<<<"state", ":", "v">>, <<"no", ":", "milestone">>,
                   <<"milestone", ":", "Go1.5">>>>
  /\ ~NoOpenMilestone(<<"Go1.5">>)
  /\ qres.work.scanned = 3 /\ qres.work.lookups = 0
  /\ qres.opt.Milestone = <<"none">>

\* ------------------------------------------- properties of searchIssues
\* C14: every page call of one searchIssues(q) goes to the same endpoint, and
\* at least one is made: Issues.ListByRepo with the compiled filter when
\* queryToListOptions(q) says ok, otherwise Search.Issues with the text
\* "type:issue state:open repo:<project> " followed by q as given.
C14_OneEndpointPerCall ==
  spc # "idle" =>
    /\ endpoint = (IF qres.ok THEN "list" ELSE "search")
    /\ \A k \in 1..Len(calls) :
         /\ calls[k].endpoint = endpoint
         /\ endpoint = "list" => calls[k].opt = qres.opt
         /\ endpoint = "search" =>
              calls[k].text =
                <<"type", ":", "issue", SP, "state", ":", "open", SP,
                  "repo", ":", "PROJECT", SP>> \o q
    /\ spc = "done" => Len(calls) >= 1

\* the quoted query author:rsc "hello" went to the free-text search, in two
\* page calls
C14_Witness ==
  /\ spc = "done" /\ ~qres.ok
  /\ q = <<"author", ":", "rsc", SP, DQ, "hello", DQ>>
  /\ Len(calls) = 2 /\ calls[1].endpoint = "search" /\ calls[2].endpoint = "search"
  /\ calls[2].page = 2

\* C15: every issue searchIssues(q) returns is in state open, whatever q is, on
\* the structured listing as on the free-text search.
C15_OnlyOpenIssuesReturned ==
  spc = "done" => \A i \in 1..Len(ret.items) : ret.items[i].state = "open"

\* ------------------------------------------------------------------- wrap
TAB == "\t"
CR == "\r"

\* strings.Replace(t, "\r\n", "\n", -1)
RECURSIVE replaceCRLF(_)
replaceCRLF(t) ==
  IF t = <<>> THEN <<>>
  ELSE IF Len(t) >= 2 /\ t[1] = CR /\ t[2] = NL
       THEN <<NL>> \o replaceCRLF(SubSeq(t, 3, Len(t)))
       ELSE <<t[1]>> \o replaceCRLF(Tail(t))

\* strings.LastIndex(s, c) for a one-character c
LastIndex(s, c) ==
  IF \A i \in 1..Len(s) : s[i] # c THEN -1
  ELSE (CHOOSE i \in 1..Len(s) : s[i] = c /\ \A j \in (i + 1)..Len(s) : s[j] # c) - 1

\* where the inner loop of wrap cuts s: after the last space of s[:max], or
\* after max characters when s[:max] has none
breakAt(s, max) ==
  LET i == LastIndex(SubSeq(s, 1, max), SP)
  IN (IF i < 0 THEN max - 1 ELSE i) + 1

\* the inner loop of wrap and the out += s after it, for one line
RECURSIVE wrapLine(_, _, _)
wrapLine(s, prefix, max) ==
  IF Len(s) > max
  THEN LET i == breakAt(s, max)
       IN SubSeq(s, 1, i) \o <<NL>> \o prefix \o wrapLine(SubSeq(s, i + 1, Len(s)), prefix, max)
  ELSE s

\* the outer loop of wrap, from the line at the head of lines on
RECURSIVE wrapLines(_, _, _, _)
wrapLines(lines, prefix, max, first) ==
  IF lines = <<>> THEN <<>>
  ELSE (IF first THEN <<>> ELSE <<NL>> \o prefix)
         \o wrapLine(Head(lines), prefix, max)
         \o wrapLines(Tail(lines), prefix, max, FALSE)

\* wrap(t, prefix), max being 70 or, with -a, the value of -w
wrap(t, prefix, max) == wrapLines(Split(replaceCRLF(t), NL), prefix, max, TRUE)

\* ------------------------------------------------------------- printIssue
\* the symbols of the strings printIssue builds, in the byte order of the
\* texts they stand for
Alphabet ==
  <<TAB, NL, SP, "(", ")", "*", "+", "-", "0", "1", "2", "3", "4", "5", "6", "7",
    "8", "9", "<", ">", "Author:", "Comment", "Committer:", "Z", "added", "ann",
    "assigned", "bob", "bug", "by", "c", "changed", "closed", "columns", "commit",
    "demilestoned", "fix", "from", "in", "labeled", "mentioned", "milestone",
    "moved", "new", "old", "project", "removed", "subscribed", "title", "to",
    "x", "y">>

Rank(c) == CHOOSE i \in 1..Len(Alphabet) : Alphabet[i] = c

\* a < b for Go strings
RECURSIVE stringLess(_, _)
stringLess(a, b) ==
  IF b = <<>> THEN FALSE
  ELSE IF a = <<>> THEN TRUE
  ELSE IF a[1] = b[1] THEN stringLess(Tail(a), Tail(b))
  ELSE Rank(a[1]) < Rank(b[1])

RECURSIVE insertString(_, _)
insertString(x, sorted) ==
  IF sorted = <<>> THEN <<x>>
  ELSE IF stringLess(x, Head(sorted)) THEN <<x>> \o sorted
  ELSE <<Head(sorted)>> \o insertString(x, Tail(sorted))

\* sort.Strings(xs): equal strings are the same string, so the order the
\* sort leaves them in does not show
RECURSIVE sortStrings(_)
sortStrings(xs) ==
  IF xs = <<>> THEN <<>> ELSE insertString(Head(xs), sortStrings(Tail(xs)))

\* time.Local: clocks read z.by more than UTC before the instant z.fall and
\* the same as UTC from it on (by = 0: a zone without a change)
LocalZones == {[fall |-> 0, by |-> 0], [fall |-> 2, by |-> 2]}
offsetAt(z, t) == IF t < z.fall THEN z.by ELSE 0

\* the instants items are created at
Times == {1, 2}

Pad2(n) == <<Digit(n \div 10), Digit(n % 10)>>

\* getTime(x).Format(time.RFC3339): the local clock reading and the offset
formatRFC3339(z, t) ==
  Pad2(t + offsetAt(z, t))
    \o (IF offsetAt(z, t) = 0 THEN <<"Z">> ELSE <<"+">> \o Pad2(offsetAt(z, t)))

\* getTime(x).Format(timeFormat): the local clock reading
formatTime(z, t) == Pad2(t + offsetAt(z, t))

\* the comments the tracker may deliver; body <<>> is a nil Body
Comments == [t : Times, user : {"ann"}, body : {<<>>, <<"x", SP, "y", SP>>}]

\* the body of the loop over a page of comments (without -raw)
renderComment(z, com) ==
  formatRFC3339(z, com.t) \o <<NL>>
    \o <<NL, "Comment", SP, "by", SP, com.user, SP, "(">> \o formatTime(z, com.t) \o <<")", NL>>
    \o (IF com.body # <<>> /\ TrimSpace(com.body) # <<>>
        THEN <<NL, TAB>> \o wrap(TrimSpace(com.body), <<TAB>>, defaultWrap) \o <<NL>>
        ELSE <<>>)

\* what Git.GetCommit may answer
NoCommit == [err |-> TRUE, author |-> "", committer |-> "", date |-> 0, message |-> <<>>]
FixCommit ==
  [err |-> FALSE, author |-> "bob", committer |-> "ann", date |-> 1,
   message |-> <<"fix", SP, "bug">>]

NoEvent ==
  [t |-> 0, Event |-> "", Actor |-> "", CommitID |-> <<>>, commit |-> NoCommit,
   Assignee |-> "", Label |-> "", Milestone |-> "", From |-> "", To |-> ""]

\* the events the tracker may deliver, with what Git.GetCommit answers for the
\* CommitID of each
EventsAt(t) ==
  { [NoEvent EXCEPT !.t = t, !.Event = "mentioned", !.Actor = "bob"],
    [NoEvent EXCEPT !.t = t, !.Event = "closed", !.Actor = "ann"],
    [NoEvent EXCEPT !.t = t, !.Event = "closed", !.Actor = "ann",
                    !.CommitID = <<"0", "1", "2", "3", "4", "5", "6", "7">>,
                    !.commit = FixCommit],
    [NoEvent EXCEPT !.t = t, !.Event = "labeled", !.Actor = "bob", !.Label = "bug"] }
\* an event whose commit Git.GetCommit fails to deliver
LostCommitEvents ==
  { [NoEvent EXCEPT !.t = 1, !.Event = "closed", !.Actor = "ann",
                    !.CommitID = <<"0", "1", "2", "3", "4", "5", "6", "7">>,
                    !.commit = NoCommit] }
Events == UNION {EventsAt(t) : t \in Times} \cup LostCommitEvents

\* strings.Replace(event, "_", " ", -1) and the other texts put for event
eventText(event) ==
  CASE event = "added_to_project" -> <<"added", SP, "to", SP, "project">>
    [] event = "moved_columns_in_project" -> <<"moved", SP, "columns", SP, "in", SP, "project">>
    [] event = "removed_from_project" -> <<"removed", SP, "from", SP, "project">>
    [] event = "milestoned" -> <<"added", SP, "to", SP, "milestone">>
    [] event = "demilestoned" -> <<"removed", SP, "from", SP, "milestone">>
    [] OTHER -> <<event>>

\* id = " in commit " + id[:7]
commitText(id) ==
  IF id = <<>> THEN <<>>
  ELSE <<SP, "in", SP, "commit", SP>> \o (IF Len(id) > 7 THEN SubSeq(id, 1, 7) ELSE id)

\* the events whose case writes nothing
ignoredEvent(event) == event \in {"mentioned", "subscribed", "unsubscribed"}

\* the switch on the event, for no event ignored
switchAll(z, ev) ==
  <<NL, "*", SP, ev.Actor, SP>> \o eventText(ev.Event) \o <<SP, "(">>
    \o formatTime(z, ev.t) \o <<")", NL>>

\* the switch on the event: what the case of ev.Event writes after the line
\* of the time
switch(z, ev) ==
  LET when == <<"(">> \o formatTime(z, ev.t) \o <<")", NL>>
      who == <<NL, "*", SP, ev.Actor, SP>>
  IN CASE ignoredEvent(ev.Event) -> <<>>
       [] ev.Event \in {"closed", "referenced", "merged"} ->
            who \o <<ev.Event>> \o commitText(ev.CommitID) \o <<SP>> \o when
              \o (IF ev.CommitID # <<>> /\ ~ev.commit.err
                  THEN <<NL, TAB, "Author:", SP, ev.commit.author, SP,
                           "<", ev.commit.author, ">", SP>>
                         \o formatTime(z, ev.commit.date)
                         \o <<NL, TAB, "Committer:", SP, ev.commit.committer, SP,
                              "<", ev.commit.committer, ">", SP>>
                         \o formatTime(z, ev.commit.date)
                         \o <<NL, NL, TAB>> \o wrap(ev.commit.message, <<TAB>>, defaultWrap)
                         \o <<NL>>
                  ELSE <<>>)
       [] ev.Event \in {"assigned", "unassigned"} ->
            who \o <<ev.Event, SP, ev.Assignee, SP>> \o when
       [] ev.Event \in {"labeled", "unlabeled"} ->
            who \o <<ev.Event, SP, ev.Label, SP>> \o when
       [] ev.Event \in {"milestoned", "demilestoned"} ->
            who \o eventText(ev.Event) \o <<SP, ev.Milestone, SP>> \o when
       [] ev.Event = "renamed" ->
            who \o <<"changed", SP, "title", SP>> \o when
              \o <<SP, SP, "-", SP, ev.From, NL, SP, SP, "+", SP, ev.To, NL>>
       [] OTHER -> who \o eventText(ev.Event) \o <<SP>> \o when

\* the body of the loop over a page of events
renderEvent(z, ev) == formatRFC3339(z, ev.t) \o <<NL>> \o switch(z, ev)

\* the entry of every comment and of every event, in every zone
CommentEntries == [z \in LocalZones |-> [com \in Comments |-> renderComment(z, com)]]
EventEntries == [z \in LocalZones |-> [ev \in Events |-> renderEvent(z, ev)]]

\* the entries of a page of comments, in the page's order
renderComments(z, items) == [k \in 1..Len(items) |-> CommentEntries[z][items[k]]]

\* the entries of a page of events, in the page's order
renderEvents(z, items) == [k \in 1..Len(items) |-> EventEntries[z][items[k]]]

\* what arrived keeps of a page of comments
arrivedComments(z, items) ==
  [k \in 1..Len(items) |->
     [t |-> items[k].t, entry |-> CommentEntries[z][items[k]], ignored |-> FALSE,
      item |-> items[k]]]

\* what arrived keeps of a page of events
arrivedEvents(z, items) ==
  [k \in 1..Len(items) |->
     [t |-> items[k].t, entry |-> EventEntries[z][items[k]],
      ignored |-> ignoredEvent(items[k].Event), item |-> items[k]]]

\* the last loop of printIssue: each entry from after its first newline on
RECURSIVE emit(_)
emit(sorted) ==
  IF sorted = <<>> THEN <<>>
  ELSE SubSeq(Head(sorted), Index(Head(sorted), NL) + 2, Len(Head(sorted)))
         \o emit(Tail(sorted))

\* sort.Strings(output) and the loop that writes the entries
timeline(out) == emit(sortStrings(out))

\* resp.NextPage as the tracker sets it for page pg: 0 on the last page, else
\* the number of the page after
nextPages(pg) == {0} \cup (IF pg < MaxPage THEN {pg + 1} ELSE {})

InitPrint ==
  /\ tracker \in {[err |-> FALSE, all |-> <<>>]}
  /\ QueryIdle /\ FetchIdle /\ CacheIdle /\ WrapIdle
  /\ zone \in LocalZones
  /\ ppc = "idle" /\ ppage = 0
  /\ output = <<>> /\ arrived = <<>> /\ written = <<>> /\ perr = FALSE
  /\ pcalls = {}

\* printIssue(w, issue) up to its first loop
PrintBegin ==
  /\ ppc = "idle"
  /\ ppc' = "comments"
  /\ ppage' = 1
  /\ UNCHANGED <<tracker, wrapVars, queryVars, fetchVars, cache, mu, procVars,
                 zone, output, arrived, written, perr, pcalls>>

\* an err of the loop over the pages of events that a failed GetCommit sets
eventsErrFromLookup(err, list) ==
  err \/ \E k \in 1..Len(list) : list[k].CommitID # <<>> /\ list[k].commit.err

\* the err tested after a page of events: the one ListIssueEvents returned;
\* the err of GetCommit is a variable of its own block
eventsErr(err, list) == err

\* a loop over pages that does not test err
pageOutcomeIgnoringError(err, next, pg) == IF lastPage(next, pg) THEN "break" ELSE "next"

\* how a turn of a loop over pages ends, after the items of the page were
\* appended to output: return err, break, or page = resp.NextPage
pageOutcome(err, next, pg) ==
  IF err THEN "return" ELSE IF lastPage(next, pg) THEN "break" ELSE "next"

\* one turn of the loop over the pages of comments
CommentsPage ==
  /\ ppc = "comments"
  /\ \E list \in SeqsUpTo(Comments, MaxEntries - Len(output)),
        next \in nextPages(ppage), err \in BOOLEAN :
       /\ output' = output \o renderComments(zone, list)
       /\ arrived' = arrived \o arrivedComments(zone, list)
       /\ pcalls' = pcalls \cup {[list |-> "comments", err |-> err]}
       /\ CASE pageOutcome(err, next, ppage) = "return" ->
                 ppc' = "done" /\ perr' = TRUE /\ ppage' = ppage
            [] pageOutcome(err, next, ppage) = "break" ->
                 ppc' = "events" /\ perr' = perr /\ ppage' = 1
            [] OTHER -> ppc' = "comments" /\ perr' = perr /\ ppage' = next
  /\ UNCHANGED <<tracker, wrapVars, queryVars, fetchVars, cache, mu, procVars, zone, written>>

\* one turn of the loop over the pages of events and, when it is the last,
\* the rest of printIssue
EventsPage ==
  /\ ppc = "events"
  /\ \E list \in SeqsUpTo(Events, MaxEntries - Len(output)),
        next \in nextPages(ppage), err \in BOOLEAN :
       /\ output' = output \o renderEvents(zone, list)
       /\ arrived' = arrived \o arrivedEvents(zone, list)
       /\ pcalls' = pcalls \cup {[list |-> "events", err |-> err]}
       /\ CASE pageOutcome(eventsErr(err, list), next, ppage) = "return" ->
                 ppc' = "done" /\ perr' = TRUE /\ ppage' = ppage /\ written' = written
            [] pageOutcome(eventsErr(err, list), next, ppage) = "break" ->
                 /\ ppc' = "done" /\ perr' = perr /\ ppage' = ppage
                 /\ written' = timeline(output')
            [] OTHER -> ppc' = "events" /\ perr' = perr /\ ppage' = next /\ written' = written
  /\ UNCHANGED <<tracker, wrapVars, queryVars, fetchVars, cache, mu, procVars, zone>>

NextPrint ==
  \/ PrintBegin
  \/ CommentsPage
  \/ EventsPage

SpecPrint == InitPrint /\ [][NextPrint]_vars

\* ------------------------------------------- properties of printIssue
\* printIssue has returned without an error
Printed == ppc = "done" /\ ~perr

\* the text of an entry as it is shown: without the line of its sort key
Shown(a) == SubSeq(a.entry, Index(a.entry, NL) + 2, Len(a.entry))

RECURSIVE ConcatShown(_)
ConcatShown(as) == IF as = <<>> THEN <<>> ELSE Shown(Head(as)) \o ConcatShown(Tail(as))

\* the orders the n entries can be put in
Orders(n) == {f \in [1..n -> 1..n] : \A j, k \in 1..n : j # k => f[j] # f[k]}

\* the transcript is the entries that arrived, put in the order f
WrittenInOrder(f) == written = ConcatShown([k \in 1..Len(arrived) |-> arrived[f[k]]])

\* C16: the transcript lists all comment and event entries in ascending order
\* of their creation times, whatever pages they arrived on.
C16_AscendingByTimestamp ==
  Printed =>
    \E f \in Orders(Len(arrived)) :
      /\ \A j, k \in 1..Len(arrived) : j < k => arrived[f[j]].t <= arrived[f[k]].t
      /\ WrittenInOrder(f)

\* the entries that arrived, without those of ignored events
NotIgnored == SelectSeq(arrived, LAMBDA a : ~a.ignored)

\* C17: events of kind mentioned, subscribed or unsubscribed add nothing to the
\* transcript: it is what printIssue writes for the same comments and events
\* without them.
C17_IgnoredEventsAddNothing ==
  Printed => written = timeline([k \in 1..Len(NotIgnored) |-> NotIgnored[k].entry])

\* a comment, then a mentioned event and a closed event on one page, the
\* mentioned event being the earliest of the three
C17_Witness ==
  /\ Printed /\ Len(arrived) = 3
  /\ ~arrived[1].ignored /\ arrived[1].t = 2
  /\ arrived[2].ignored /\ arrived[2].t = 1
  /\ ~arrived[3].ignored /\ arrived[3].t = 2
  /\ written = Shown(arrived[3]) \o Shown(arrived[1])

\* ------------------------------------------------------------ wrap alone
\* the texts wrap is tried on: every text of up to MaxText characters, and
\* "aaaa bbbb cccc"
WrapTexts ==
  SeqsUpTo({"a", SP, NL}, MaxText)
    \cup {<<"a", "a", "a", "a", SP, "b", "b", "b", "b", SP, "c", "c", "c", "c">>,
          <<"a", CR, NL, "a">>}

WrapPrefixes == {<<>>, <<">", SP>>}

InitWrap ==
  /\ tracker \in {[err |-> FALSE, all |-> <<>>]}
  /\ QueryIdle /\ FetchIdle /\ CacheIdle /\ PrintIdle
  /\ wt \in WrapTexts /\ wprefix \in WrapPrefixes
  /\ wmax \in (1..MaxWidth) \cup {9}
  /\ wpc = "ready" /\ wout = <<>>

\* a call of wrap(t, prefix)
WrapCall ==
  /\ wpc = "ready"
  /\ wout' = wrap(wt, wprefix, wmax)
  /\ wpc' = "done"
  /\ UNCHANGED <<tracker, printVars, queryVars, fetchVars, cache, mu, procVars,
                 wt, wprefix, wmax>>

NextWrap == WrapCall

SpecWrap == InitWrap /\ [][NextWrap]_vars

\* ------------------------------------------- properties of wrap
\* the lines of the text wrap returned
OutLines == Split(wout, NL)

\* C18: no line of what wrap returns is longer than the maximum width, unless
\* it is a single token that cannot be split; every line after the first
\* starts with the prefix.
C18_NoLineOverWidth ==
  wpc = "done" =>
    \A k \in 1..Len(OutLines) :
      /\ k > 1 => HasPrefix(OutLines[k], wprefix)
      /\ Len(OutLines[k]) > wmax =>
           LET from == IF k > 1 THEN Len(wprefix) + 1 ELSE 1
           IN \A i \in from..Len(OutLines[k]) : OutLines[k][i] # SP

\* ------------------------------------------- the lock of issueCache
\* the places where a process is between issueCache.Lock() and Unlock()
LockedPlaces == {"snapLocked", "updLocked"}

\* the lock is held by the process that is between Lock() and Unlock(), if
\* there is one, and by no process that waits for client.Issues.Get
LockHeldOnlyInside ==
  \A p \in Procs :
    /\ (mu = p) = (proc[p].pc \in LockedPlaces)
    /\ proc[p].pc = "get" => mu # p

\* C19: every read and every write of issueCache.m is made by the process that
\* holds the lock, and no process holds the lock while its call of
\* client.Issues.Get is in progress: bulkReadIssuesCached holds it for its
\* first loop only, and takes it again for each issue it stores.
C19_Step ==
  /\ LockHeldOnlyInside /\ LockHeldOnlyInside'
  /\ cache' # cache =>
       \E p \in Procs : mu = p /\ proc[p].pc = "updLocked" /\ mu' = 0
  /\ \A p \in Procs :
       /\ (proc[p].pc = "snapLocked" /\ proc'[p].pc # "snapLocked")
            => (mu = p /\ mu' = 0 /\ proc'[p].begin = cache)
       /\ proc'[p].begin # proc[p].begin
            => (proc[p].pc \in {"snapLocked", "idle", "done"}
                /\ (proc[p].pc = "snapLocked" => mu = p))
       /\ (proc[p].pc = "get" /\ proc'[p].pc = "upd") => (mu # p /\ mu' = mu)

C19_MapAccessUnderLock == [][C19_Step]_vars

\* process 1 waits for client.Issues.Get while process 2 holds the lock to
\* store an issue
C19_Witness ==
  /\ proc[1].kind = "bulk" /\ proc[1].pc = "get"
  /\ mu = 2 /\ proc[2].pc = "updLocked"
  /\ proc[1].tried # {}

\* C20: entries that carry the same timestamp are written in the order they
\* arrived in (comments page by page, then events page by page), whatever
\* their text is.
C20_TiesInArrivalOrder ==
  Printed =>
    \E f \in Orders(Len(arrived)) :
      /\ WrittenInOrder(f)
      /\ \A j, k \in 1..Len(arrived) :
           (j < k /\ arrived[f[j]].t = arrived[f[k]].t) => f[j] < f[k]

\* ------------------------------------------- write-through
\* the issues an operation obtained from the tracker: the items of the pages
\* of the search or listing, the issues a bulk read fetched, the issue
\* showIssue fetched
ObtainedByPages == {ConcatItems(resps)[k] : k \in 1..Len(ConcatItems(resps))}
ObtainedByBulk(p) == {proc[p].all[k] : k \in {j \in proc[p].tried : proc[p].all[j] # NilIssue}}
ShowReturned(p) == proc[p].kind = "show" /\ proc[p].pc = "done"

\* issue x is in the cache under its number
Recorded(x) == x.num \in DOMAIN cache /\ cache[x.num].num = x.num

\* the last item of xs that carries number n
LastWith(xs, n) ==
  xs[CHOOSE k \in 1..Len(xs) : xs[k].num = n /\ \A j \in (k + 1)..Len(xs) : xs[j].num # n]

\* C21: when showIssue, searchIssues, listRepoIssues or bulkReadIssuesCached
\* has returned, with or without an error, every issue with a non-zero number
\* that it obtained from the tracker (every item of every page received, every
\* issue fetched one by one) is in the cache under its number; after a search
\* or listing, which runs alone here, the entry is the last item received
\* with that number.
C21_WriteThrough ==
  /\ spc = "done" =>
       \A x \in ObtainedByPages :
         x.num # 0 => Recorded(x) /\ cache[x.num] = LastWith(ConcatItems(resps), x.num)
  /\ \A p \in Procs :
       /\ Returned(p) => \A x \in ObtainedByBulk(p) : x.num # 0 => Recorded(x)
       /\ (ShowReturned(p) /\ proc[p].got.num # 0) => Recorded(proc[p].got)

\* the listing returned with an error after a page that delivered a numbered
\* issue, and that issue is in the cache
C21_Witness ==
  /\ spc = "done" /\ endpoint = "list" /\ ret.err
  /\ \E x \in ObtainedByPages : x.num # 0 /\ Recorded(x)

\* a bulk read returned with an error line and a fetched issue, which is in
\* the cache, and showIssue returned an issue that is in the cache
C21_WitnessSingle ==
  /\ Returned(1) /\ proc[1].err
  /\ \E x \in ObtainedByBulk(1) : Recorded(x)
  /\ ShowReturned(2) /\ ~proc[2].err /\ Recorded(proc[2].got)

\* ------------------------------------------- failures inside printIssue
\* what arrived is an event, and one whose commit was looked up in vain
IsEvent(a) == "Event" \in DOMAIN a.item
LookupFailed(a) ==
  /\ IsEvent(a)
  /\ a.item.Event \in {"closed", "referenced", "merged"}
  /\ a.item.CommitID # <<>>
  /\ a.item.commit.err

\* the line of a closed, referenced or merged event: actor, kind, the first
\* seven characters of the commit identifier, time
EventLine(z, ev) ==
  <<NL, "*", SP, ev.Actor, SP, ev.Event, SP, "in", SP, "commit", SP>>
    \o SubSeq(ev.CommitID, 1, IF Len(ev.CommitID) > 7 THEN 7 ELSE Len(ev.CommitID))
    \o <<SP, "(">> \o formatTime(z, ev.t) \o <<")", NL>>

\* text s holds the text sub
Contains(s, sub) ==
  \E i \in 0..(Len(s) - Len(sub)) : SubSeq(s, i + 1, i + Len(sub)) = sub

\* some page call has failed
PageFailed == \E c \in pcalls : c.err

\* the entry an event has when it is its line alone
LineAlone(z, ev) == formatRFC3339(z, ev.t) \o <<NL>> \o EventLine(z, ev)

\* C22: when a closed, referenced or merged event has a commit identifier and
\* the lookup of the commit fails, printIssue still puts out the line of the
\* event (actor, kind, commit, time) and only the author, committer and message
\* are left out; the events after it get their entries, the page it came on
\* ends like any other (the next page is asked for, or the transcript is
\* written, with the line in it), and no error is returned unless a page call
\* failed.
C22_Step ==
  LET new == (Len(arrived) + 1)..Len(arrived')
  IN /\ Len(output') = Len(arrived')
     /\ \A k \in new :
          /\ output'[k] = arrived'[k].entry
          /\ LookupFailed(arrived'[k]) => output'[k] = LineAlone(zone, arrived'[k].item)
          /\ (IsEvent(arrived'[k]) /\ ~LookupFailed(arrived'[k])
                /\ arrived'[k].item.CommitID # <<>>)
               => Len(output'[k]) > Len(LineAlone(zone, arrived'[k].item))
     /\ perr' => PageFailed'
     /\ (Printed' /\ ~Printed) =>
          \A k \in 1..Len(arrived') :
            LookupFailed(arrived'[k]) => Contains(written', EventLine(zone, arrived'[k].item))
     /\ ((\E k \in new : LookupFailed(arrived'[k]))
          /\ [list |-> "events", err |-> TRUE] \notin pcalls')
         => /\ ~perr'
            /\ \/ ppc' = "events" /\ ppage' > ppage
               \/ ppc' = "done" /\ written' = timeline(output')

C22_LookupFailureKeepsLine == [][C22_Step]_vars

\* printIssue has returned without an error; an event whose commit lookup
\* failed was followed by another event on the way, and both are in the
\* transcript
C22_Witness ==
  /\ Printed
  /\ \E k \in 1..(Len(arrived) - 1) :
       /\ LookupFailed(arrived[k])
       /\ IsEvent(arrived[k + 1]) /\ ~arrived[k + 1].ignored
       /\ Contains(written, EventLine(zone, arrived[k].item))
       /\ Contains(written, Shown(arrived[k + 1]))

\* a call for a page of the list has been made
Asked(list) == \E c \in pcalls : c.list = list

\* C23: when a call for a page of comments or of events fails, printIssue
\* returns the error and has written no comment and no event entry, whatever
\* arrived before; after a failed comments page no events page is asked for;
\* entries are written only when both loops over pages have ended without a
\* failed call.
C23_PageFailureWritesNothing ==
  /\ PageFailed => (ppc = "done" /\ perr /\ written = <<>>)
  /\ [list |-> "comments", err |-> TRUE] \in pcalls => ~Asked("events")
  /\ written # <<>> =>
       /\ ppc = "done" /\ ~perr /\ ~PageFailed
       /\ Asked("comments") /\ Asked("events")
  /\ Printed => (Asked("comments") /\ Asked("events") /\ written = timeline(output))

\* a page of events failed after comments and events had arrived: nothing
\* of them is written
C23_Witness ==
  /\ ppc = "done" /\ perr
  /\ [list |-> "events", err |-> TRUE] \in pcalls
  /\ \E j, k \in 1..Len(arrived) :
       /\ ~IsEvent(arrived[j])
       /\ IsEvent(arrived[k]) /\ ~arrived[k].ignored
  /\ written = <<>>

\* a page of comments failed after an earlier page had delivered a comment
C23_WitnessComments ==
  /\ ppc = "done" /\ perr
  /\ pcalls = {[list |-> "comments", err |-> FALSE], [list |-> "comments", err |-> TRUE]}
  /\ arrived # <<>> /\ written = <<>>

=============================================================================
